---- MODULE Spec2Model ----
(***************************************************************************)
(* A model of src/remoteForS3.ts: the S3 adapter of the sync plugin.       *)
(*                                                                         *)
(* Strings are sequences of characters (a path "d/a" is <<"d","/","a">>),  *)
(* so that startsWith / endsWith are computed and not assumed.  An         *)
(* optional value (undefined or a value) is a sequence of length 0 or 1.   *)
(* Every async function is cut at its awaits: one action is the code from  *)
(* one await to the next, together with the request it waits for.          *)
(***************************************************************************)
EXTENDS Integers, Sequences, FiniteSets, TLC

(* ------------------------------------------------------------------ *)
(* Bounds of the model                                                 *)
(* ------------------------------------------------------------------ *)

\* the longest file content, in bytes
MaxContentLen == 1
\* the largest page the backend hands out (its choice of MaxKeys)
MaxPageSize == 2
\* the number of calls made against the adapter in one behaviour
MaxCalls == 2

(* ------------------------------------------------------------------ *)
(* Optional values and strings                                         *)
(* ------------------------------------------------------------------ *)

None == <<>>
Some(x) == <<x>>

EmptyStr == <<>>

StartsWith(s, p) ==
  /\ Len(p) <= Len(s)
  /\ \A i \in 1..Len(p) : s[i] = p[i]

EndsWith(s, c) == Len(s) > 0 /\ s[Len(s)] = c

Min(a, b) == IF a < b THEN a ELSE b

Range(s) == {s[i] : i \in 1..Len(s)}

(* ------------------------------------------------------------------ *)
(* The values the calls are made with                                  *)
(* ------------------------------------------------------------------ *)

Root == <<"/">>
DirD == <<"d", "/">>
FileA == <<"d", "/", "a">>
FileB == <<"d", "/", "b">>
KeyK == <<"k">>

\* fileOrFolderPath arguments
Paths == {Root, DirD, FileA}
\* paths of the files of the local vault
FilePaths == {FileA}
\* remoteEncryptedKey arguments: unset (the default "") or set
EncKeys == {EmptyStr, KeyK}
\* password arguments: none (the default "") or one
Passwords == {EmptyStr, <<"p">>}
\* prefix arguments of listFromRemote
Prefixes == {None, Some(DirD), Some(KeyK)}
\* mtime arguments of downloadFromRemote
Mtimes == {1, 2}
\* keys of the objects the bucket can hold, in the order S3 lists them
KeyOrder == <<Root, DirD, FileA, FileB, KeyK>>
BucketKeys == Range(KeyOrder)

ByteVals == {0, 255}
BoundedSeq(S, n) == UNION {[1..m -> S] : m \in 0..n}
Contents == BoundedSeq(ByteVals, MaxContentLen)

VARIABLES
  bucket,    \* the remote objects: key -> None or Some(body)
  vault,     \* the local files: path -> None or Some([data, mtime])
  folders,   \* the local folders that exist
  call,      \* the arguments of the call in progress, or NoCall
  pc,        \* where the call in progress is suspended
  outcome,   \* how the call ended: pending, ok (a value) or error
  sent,      \* the requests the call in progress has issued, in order
  lst,       \* the locals of listFromRemote
  inflight,  \* per-entry deletes issued by a forEach and not yet answered
  failed,    \* per-entry deletes that were rejected (nobody awaits them)
  prev,      \* the file upload that the previous call completed, or None
  calls      \* number of calls made

vars == <<bucket, vault, folders, call, pc, outcome, sent, lst, inflight,
          failed, prev, calls>>

\* the arguments of a call and the locals it keeps across its awaits:
\* key is uploadFile / downloadFile / remoteFileName, data the content read
\* locally, body the bytes that travel, results the answer to a HeadBucket
Call(op, path, isRecursively, password, remoteEncryptedKey, mtime) ==
  [op |-> op, path |-> path, isRecursively |-> isRecursively,
   password |-> password, remoteEncryptedKey |-> remoteEncryptedKey,
   mtime |-> mtime, key |-> EmptyStr, data |-> <<>>, body |-> <<>>,
   results |-> None]

NoCall == Call("none", EmptyStr, FALSE, EmptyStr, EmptyStr, 0)
Pending == [kind |-> "pending"]
Ok(v) == [kind |-> "ok", value |-> v]
Err(m) == [kind |-> "error", msg |-> m]

\* an error of the transport or of the service, passed through unchanged
TransportError == "transport error"

NoListing ==
  [active |-> FALSE, confCmd |-> [Prefix |-> None, ContinuationToken |-> None],
   contents |-> <<>>, isTruncated |-> TRUE,
   continuationToken |-> Some(EmptyStr), pages |-> <<>>, stable |-> TRUE]

(* ------------------------------------------------------------------ *)
(* The requests and the remote service                                 *)
(* ------------------------------------------------------------------ *)

\* a command handed to s3Client.send (the Bucket is the same in all)
Req(cmd, key) == [cmd |-> cmd, Key |-> key, Prefix |-> None, Token |-> None]
ListReq(confCmd) ==
  [cmd |-> "ListObjectsV2", Key |-> EmptyStr, Prefix |-> confCmd.Prefix,
   Token |-> confCmd.ContinuationToken]

\* the _Object of a listing, and the answer of a HeadObject
S3Object(k) == [Key |-> k, Size |-> Len(bucket[k][1])]

\* the keys a ListObjectsV2 with this prefix matches, in listing order
MatchingKeys(prefix) ==
  SelectSeq(KeyOrder, LAMBDA k :
    bucket[k] # None /\ (prefix = None \/ StartsWith(k, prefix[1])))

\* where the backend resumes: a token it issued is the position it stands for
StartOf(token) ==
  IF token # None /\ token[1] # EmptyStr THEN token[1][1] ELSE 0

TokenAt(i) == Some(<<i>>)

\* the page of n keys a well-behaved backend answers confCmd with
Page(confCmd, n) ==
  LET m == MatchingKeys(confCmd.Prefix)
      from == Min(StartOf(confCmd.ContinuationToken), Len(m))
      upto == Min(from + n, Len(m))
      keys == SubSeq(m, from + 1, upto)
  IN [status |-> 200,
      Contents |-> IF keys = <<>> THEN None
                   ELSE Some([i \in 1..Len(keys) |-> S3Object(keys[i])]),
      IsTruncated |-> upto < Len(m),
      NextContinuationToken |-> IF upto < Len(m) THEN TokenAt(upto) ELSE None]

HasToken(rsp) ==
  rsp.NextContinuationToken # None /\ rsp.NextContinuationToken # Some(EmptyStr)

\* a page that follows the protocol of ListObjectsV2
Compliant(rsp) == rsp.status = 200 /\ (rsp.IsTruncated => HasToken(rsp))

\* every answer the service can give to a ListObjectsV2: a page of any size,
\* and the answers that break the protocol (a non-200 status, a truncated
\* page without a usable token, a truncated answer without Contents)
ListResponses(confCmd) ==
  LET good == {Page(confCmd, n) : n \in 1..MaxPageSize}
      trunc == {p \in good : p.IsTruncated}
  IN good
     \cup {[p EXCEPT !.status = 500] : p \in good}
     \cup {[p EXCEPT !.status = 500, !.Contents = None] : p \in good}
     \cup {[p EXCEPT !.NextContinuationToken = None] : p \in trunc}
     \cup {[p EXCEPT !.NextContinuationToken = Some(EmptyStr)] : p \in trunc}
     \cup {[p EXCEPT !.NextContinuationToken = None, !.Contents = None] : p \in trunc}

(* ------------------------------------------------------------------ *)
(* listFromRemote                                                      *)
(* ------------------------------------------------------------------ *)

fromS3ObjectToRemoteItem(x) ==
  [key |-> x.Key, size |-> x.Size, remoteType |-> "s3"]

ListingFailed == "some thing bad while listing remote!"
NoTokenError == "isTruncated is true but no continuationToken provided"

\* the check of line 183 as a range check: a 500 passes
StatusOkMutant(rsp) == rsp.status >= 200

StatusOk(rsp) == rsp.status = 200

\* the test of lines 193-196: it reads the local continuationToken, which
\* is initialised to "" on line 179 and assigned nowhere
TokenMissing(l, rsp) ==
  l.continuationToken = None \/ l.continuationToken = Some(EmptyStr)

\* the locals of listFromRemote before the loop
ListLocals(prefix) ==
  [active |-> TRUE,
   confCmd |-> [Prefix |-> prefix, ContinuationToken |-> None],
   contents |-> <<>>, isTruncated |-> TRUE,
   continuationToken |-> Some(EmptyStr), pages |-> <<>>, stable |-> TRUE]

\* one iteration of the do-while on the answer rsp: the locals after it and
\* how the iteration ends (throw, leave the loop, or go round again)
ListIteration(l, rsp) ==
  LET seen == [l EXCEPT !.pages = Append(@, rsp)]
  IN IF ~StatusOk(rsp)
       THEN [l |-> seen, next |-> "throw", msg |-> ListingFailed]
     ELSE IF rsp.Contents = None
       THEN [l |-> seen, next |-> "return", msg |-> ""]
     ELSE
       LET l2 == [seen EXCEPT !.contents = @ \o rsp.Contents[1],
                              !.isTruncated = rsp.IsTruncated,
                              !.confCmd.ContinuationToken =
                                 rsp.NextContinuationToken]
       IN IF l2.isTruncated /\ TokenMissing(l2, rsp)
            THEN [l |-> l2, next |-> "throw", msg |-> NoTokenError]
          ELSE IF l2.isTruncated
            THEN [l |-> l2, next |-> "again", msg |-> ""]
          ELSE [l |-> l2, next |-> "return", msg |-> ""]

\* the value listFromRemote returns
ListResult(l) ==
  [Contents |-> [i \in 1..Len(l.contents) |->
                   fromS3ObjectToRemoteItem(l.contents[i])]]

(* ------------------------------------------------------------------ *)
(* Calls                                                               *)
(* ------------------------------------------------------------------ *)

Idle == pc = "idle" /\ calls < MaxCalls

\* what every call starts from
Begin(c) ==
  /\ call' = c
  /\ calls' = calls + 1
  /\ sent' = <<>>

\* the call ends: it returns v, or throws m
Return(v) == outcome' = Ok(v) /\ pc' = "done"
Throw(m) == outcome' = Err(m) /\ pc' = "done"

\* s3Client.send of a command with this Key can be answered at all: the
\* client refuses an empty Key before anything reaches the service
Sendable(key) == key # EmptyStr

\* the key without the switch to remoteEncryptedKey
RemoteKeyMutant(path, password, remoteEncryptedKey) == path

\* the key the requests carry (lines 104-107, 268-271, 304-307)
RemoteKey(path, password, remoteEncryptedKey) ==
  IF password # EmptyStr THEN remoteEncryptedKey ELSE path

(* listFromRemote, lines 164-179: up to the first await *)
CallList(prefix) ==
  /\ Idle
  /\ Begin(Call("list", EmptyStr, FALSE, EmptyStr, EmptyStr, 0))
  /\ lst' = ListLocals(prefix)
  /\ pc' = "list"
  /\ outcome' = Pending
  /\ UNCHANGED <<bucket, vault, folders, inflight, failed, prev>>

(* ------------------------------------------------------------------ *)
(* deleteFromRemote                                                    *)
(* ------------------------------------------------------------------ *)

\* the guard of line 301 comparing with the empty path
IsRootMutant(path) == path = EmptyStr

IsRoot(path) == path = Root

\* a loop that leaves after its first entry
EntryRequestsMutant(items) ==
  [i \in 1..Min(1, Len(items)) |-> Req("DeleteObject", items[i].key)]

\* the delete requests the forEach of lines 317-324 issues: every callback
\* runs up to its await, so every send is made before forEach returns
EntryRequests(items) ==
  [i \in 1..Len(items) |-> Req("DeleteObject", items[i].key)]

\* the number of requests for key k among reqs
Count(reqs, k) == Cardinality({i \in 1..Len(reqs) : reqs[i].Key = k})

(* lines 294-307: the guard on "/" and the choice of the key *)
CallDelete(path, password, remoteEncryptedKey) ==
  /\ Idle
  /\ Begin([Call("delete", path, FALSE, password, remoteEncryptedKey, 0)
             EXCEPT !.key = RemoteKey(path, password, remoteEncryptedKey)])
  /\ lst' = NoListing
  /\ IF IsRoot(path)
       THEN Return(None)
       ELSE outcome' = Pending /\ pc' = "del_marker"
  /\ UNCHANGED <<bucket, vault, folders, inflight, failed, prev>>

(* lines 308-329: the delete of the object itself, then the branch on the
   kind of path; a directory marker without password starts the listing *)
DeleteMarker ==
  /\ pc = "del_marker"
  /\ sent' = Append(sent, Req("DeleteObject", call.key))
  /\ \/ /\ Throw(TransportError)
        /\ UNCHANGED <<bucket, lst>>
     \/ /\ Sendable(call.key)
        /\ bucket' = [bucket EXCEPT ![call.key] = None]
        /\ IF EndsWith(call.path, "/") /\ call.password = EmptyStr
             THEN /\ lst' = ListLocals(Some(call.path))
                  /\ pc' = "list"
                  /\ UNCHANGED outcome
             ELSE /\ Return(None)
                  /\ UNCHANGED lst
  /\ UNCHANGED <<vault, folders, call, inflight, failed, prev, calls>>

(* lines 180-204, one iteration of the loop of listFromRemote; when the
   listing returns inside deleteFromRemote, lines 317-324 follow at once *)
ListPage ==
  /\ pc = "list"
  /\ \/ /\ sent' = Append(sent, ListReq(lst.confCmd))
        /\ Throw(TransportError)
        /\ UNCHANGED <<lst, inflight>>
     \/ \E rsp \in ListResponses(lst.confCmd) :
          LET it == ListIteration(lst, rsp)
              x == ListResult(it.l)
              reqs == EntryRequests(x.Contents)
          IN /\ lst' = it.l
             /\ IF it.next = "throw"
                  THEN /\ Throw(it.msg)
                       /\ sent' = Append(sent, ListReq(lst.confCmd))
                       /\ UNCHANGED inflight
                ELSE IF it.next = "again"
                  THEN /\ sent' = Append(sent, ListReq(lst.confCmd))
                       /\ UNCHANGED <<pc, outcome, inflight>>
                ELSE IF call.op = "delete"
                  THEN /\ sent' = Append(sent, ListReq(lst.confCmd)) \o reqs
                       /\ inflight' =
                            [k \in BucketKeys |-> inflight[k] + Count(reqs, k)]
                       /\ Return(None)
                ELSE /\ sent' = Append(sent, ListReq(lst.confCmd))
                     /\ Return(x)
                     /\ UNCHANGED inflight
  /\ UNCHANGED <<bucket, vault, folders, call, failed, prev, calls>>

(* the answer to a delete of lines 318-323 arrives: the object is gone *)
EntryDeleteSucceeds(k) ==
  /\ inflight[k] > 0
  /\ inflight' = [inflight EXCEPT ![k] = @ - 1]
  /\ bucket' = [bucket EXCEPT ![k] = None]
  /\ lst' = IF lst.active /\ pc = "list" /\ bucket[k] # None
              THEN [lst EXCEPT !.stable = FALSE] ELSE lst
  /\ UNCHANGED <<vault, folders, call, pc, outcome, sent, failed, prev, calls>>

(* the delete is rejected: the promise of the callback rejects, unawaited *)
EntryDeleteFails(k) ==
  /\ inflight[k] > 0
  /\ inflight' = [inflight EXCEPT ![k] = @ - 1]
  /\ failed' = failed \cup {k}
  /\ UNCHANGED <<bucket, vault, folders, call, pc, outcome, sent, lst, prev,
                 calls>>

(* ------------------------------------------------------------------ *)
(* checkConnectivity                                                   *)
(* ------------------------------------------------------------------ *)

\* what awaiting the HeadBucketCommand can give: an exception, or a result
\* in which anything may be missing
HeadBucketResults ==
  {[throws |-> TRUE, results |-> None]} \cup
  {[throws |-> FALSE, results |-> r] : r \in
    {None, Some([metadata |-> None])} \cup
    {Some([metadata |-> Some([httpStatusCode |-> c])]) :
       c \in {None, Some(200), Some(301), Some(403), Some(404)}}}

\* a catch that throws the error on
OnHeadBucketThrowMutant == Err(TransportError)

\* the catch of lines 355-357
OnHeadBucketThrow == Ok(FALSE)

\* lines 343-357
checkConnectivity(r) ==
  IF r.throws THEN OnHeadBucketThrow
  ELSE IF \/ r.results = None
          \/ r.results[1].metadata = None
          \/ r.results[1].metadata[1].httpStatusCode = None
    THEN Ok(FALSE)
  ELSE Ok(r.results[1].metadata[1].httpStatusCode = Some(200))

CallCheckConnectivity ==
  /\ Idle
  /\ Begin(Call("checkConnectivity", EmptyStr, FALSE, EmptyStr, EmptyStr, 0))
  /\ lst' = NoListing
  /\ outcome' = Pending
  /\ pc' = "cc_head"
  /\ UNCHANGED <<bucket, vault, folders, inflight, failed, prev>>

HeadBucket ==
  /\ pc = "cc_head"
  /\ \E r \in HeadBucketResults :
       /\ outcome' = checkConnectivity(r)
       /\ call' = [call EXCEPT !.results = Some(r)]
  /\ sent' = Append(sent, Req("HeadBucket", EmptyStr))
  /\ pc' = "done"
  /\ UNCHANGED <<bucket, vault, folders, lst, inflight, failed, prev, calls>>

(* ------------------------------------------------------------------ *)
(* The cipher and the vault helpers (./encrypt and ./misc)             *)
(* ------------------------------------------------------------------ *)

\* the first byte of every ciphertext
Magic == 83
\* the byte a passphrase turns into
KeyByte(password) == Len(password) + 6

\* the ciphertext: a header that names the passphrase, then every byte moved
encryptArrayBuffer(data, password) ==
  <<Magic, KeyByte(password)>> \o
  [i \in 1..Len(data) |-> (data[i] + KeyByte(password)) % 256]

\* the plaintext, or None when the bytes are no ciphertext of this passphrase
decryptArrayBuffer(bytes, password) ==
  IF Len(bytes) < 2 \/ bytes[1] # Magic \/ bytes[2] # KeyByte(password)
    THEN None
    ELSE Some([i \in 1..(Len(bytes) - 2) |->
                 (bytes[i + 2] + 256 - KeyByte(password)) % 256])

DecryptionError == "decryption error"

\* the folders mkdirpInVault makes sure of: every proper prefix of the path
\* that a "/" ends
mkdirpInVault(path) ==
  {SubSeq(path, 1, i - 1) : i \in {j \in 2..Len(path) : path[j] = "/"}}

(* ------------------------------------------------------------------ *)
(* uploadToRemote                                                      *)
(* ------------------------------------------------------------------ *)

NoRecursiveUpload == "upload function doesn't implement recursive function yet!"
NotFound == "NotFound"
NoSuchFile == "ENOENT"

fromS3HeadObjectToRemoteItem(key, x) ==
  [key |-> key, size |-> x.ContentLength, remoteType |-> "s3"]

\* the answer of the service to a HeadObject of an object it holds
HeadObjectOutput(k) == [ContentLength |-> Len(bucket[k][1])]

\* the bytes uploadToRemote hands to the Upload (lines 137-141)
UploadBody(localContent, password) ==
  IF password # EmptyStr
    THEN encryptArrayBuffer(localContent, password)
    ELSE localContent

(* lines 104-114: the key, the kind of path, the refusal of recursion *)
CallUpload(path, isRecursively, password, remoteEncryptedKey) ==
  /\ Idle
  /\ Begin([Call("upload", path, isRecursively, password,
                 remoteEncryptedKey, 0)
             EXCEPT !.key = RemoteKey(path, password, remoteEncryptedKey)])
  /\ lst' = NoListing
  /\ IF EndsWith(path, "/") /\ isRecursively
       THEN Throw(NoRecursiveUpload)
       ELSE /\ outcome' = Pending
            /\ pc' = IF EndsWith(path, "/") THEN "up_put" ELSE "up_read"
  /\ UNCHANGED <<bucket, vault, folders, inflight, failed, prev>>

(* lines 116-124: the zero-byte object of a folder *)
UploadPut ==
  /\ pc = "up_put"
  /\ sent' = Append(sent, Req("PutObject", call.key))
  /\ \/ /\ Throw(TransportError)
        /\ UNCHANGED bucket
     \/ /\ Sendable(call.key)
        /\ bucket' = [bucket EXCEPT ![call.key] = Some(<<>>)]
        /\ pc' = "up_head"
        /\ UNCHANGED outcome
  /\ UNCHANGED <<vault, folders, call, lst, inflight, failed, prev, calls>>

(* lines 129-141: the content is read and, with a password, encrypted *)
UploadRead ==
  /\ pc = "up_read"
  /\ IF vault[call.path] = None
       THEN /\ Throw(NoSuchFile)
            /\ UNCHANGED call
       ELSE LET localContent == vault[call.path][1].data
            IN /\ call' = [call EXCEPT
                     !.data = localContent,
                     !.body = UploadBody(localContent, call.password)]
               /\ pc' = "up_done"
               /\ UNCHANGED outcome
  /\ UNCHANGED <<bucket, vault, folders, sent, lst, inflight, failed, prev,
                 calls>>

(* lines 143-158: the Upload; with leavePartsOnError false a failed upload
   leaves no object *)
UploadDone ==
  /\ pc = "up_done"
  /\ sent' = Append(sent, Req("Upload", call.key))
  /\ \/ /\ Throw(TransportError)
        /\ UNCHANGED bucket
     \/ /\ Sendable(call.key)
        /\ bucket' = [bucket EXCEPT ![call.key] = Some(call.body)]
        /\ pc' = "up_head"
        /\ UNCHANGED outcome
  /\ UNCHANGED <<vault, folders, call, lst, inflight, failed, prev, calls>>

(* getRemoteMeta, lines 80-93, as called on lines 125 and 160 *)
UploadHead ==
  /\ pc = "up_head"
  /\ sent' = Append(sent, Req("HeadObject", call.key))
  /\ \/ Throw(TransportError)
     \/ /\ bucket[call.key] = None
        /\ Throw(NotFound)
     \/ /\ bucket[call.key] # None
        /\ Return(fromS3HeadObjectToRemoteItem(call.key,
                                               HeadObjectOutput(call.key)))
  /\ UNCHANGED <<bucket, vault, folders, call, lst, inflight, failed, prev,
                 calls>>

(* ------------------------------------------------------------------ *)
(* downloadFromRemote                                                  *)
(* ------------------------------------------------------------------ *)

NoSuchKey == "NoSuchKey"
UnsupportedBody == "The type of the body is not one of the supported types"

\* the Body of a GetObject answer: one of three shapes that carry the
\* bytes, or something else
BodyShapes == {"Readable", "ReadableStream", "Blob", "other"}

\* lines 214-231: the bytes of the body, or None where it throws TypeError
getObjectBodyToArrayBuffer(b) ==
  IF b.shape = "Readable" THEN Some(b.bytes)
  ELSE IF b.shape = "ReadableStream" THEN Some(b.bytes)
  ELSE IF b.shape = "Blob" THEN Some(b.bytes)
  ELSE None

\* the download without the decryption of line 279
DownloadContentMutant(remoteContent, password) == Some(remoteContent)

\* the bytes downloadFromRemote writes (lines 277-280), or None where
\* decryptArrayBuffer throws
DownloadContent(remoteContent, password) ==
  IF password # EmptyStr
    THEN decryptArrayBuffer(remoteContent, password)
    ELSE Some(remoteContent)

\* the file writeBinary leaves (lines 281-283)
WrittenFile(localContent, mtime) == [data |-> localContent, mtime |-> mtime]

(* lines 257-259: up to the await of mkdirpInVault *)
CallDownload(path, mtime, password, remoteEncryptedKey) ==
  /\ Idle
  /\ Begin([Call("download", path, FALSE, password, remoteEncryptedKey, mtime)
             EXCEPT !.key = RemoteKey(path, password, remoteEncryptedKey)])
  /\ lst' = NoListing
  /\ outcome' = Pending
  /\ pc' = "dl_mkdir"
  /\ UNCHANGED <<bucket, vault, folders, inflight, failed, prev>>

(* lines 259-271: the folders exist; for a folder that is all *)
DownloadMkdir ==
  /\ pc = "dl_mkdir"
  /\ folders' = folders \cup mkdirpInVault(call.path)
  /\ IF EndsWith(call.path, "/")
       THEN Return(None)
       ELSE pc' = "dl_get" /\ UNCHANGED outcome
  /\ UNCHANGED <<bucket, vault, call, sent, lst, inflight, failed, prev, calls>>

(* downloadFromRemoteRaw, lines 233-246 *)
DownloadGet ==
  /\ pc = "dl_get"
  /\ sent' = Append(sent, Req("GetObject", call.key))
  /\ \/ /\ Throw(TransportError)
        /\ UNCHANGED call
     \/ /\ Sendable(call.key)
        /\ bucket[call.key] = None
        /\ Throw(NoSuchKey)
        /\ UNCHANGED call
     \/ /\ Sendable(call.key)
        /\ bucket[call.key] # None
        /\ \E shape \in BodyShapes :
             LET bodyContents == getObjectBodyToArrayBuffer(
                    [shape |-> shape, bytes |-> bucket[call.key][1]])
             IN IF bodyContents = None
                  THEN Throw(UnsupportedBody) /\ UNCHANGED call
                  ELSE /\ call' = [call EXCEPT !.body = bodyContents[1]]
                       /\ pc' = "dl_write"
                       /\ UNCHANGED outcome
  /\ UNCHANGED <<bucket, vault, folders, lst, inflight, failed, prev, calls>>

(* lines 277-283: decrypt with a password, then write with the mtime *)
DownloadWrite ==
  /\ pc = "dl_write"
  /\ LET localContent == DownloadContent(call.body, call.password)
     IN IF localContent = None
          THEN Throw(DecryptionError) /\ UNCHANGED vault
          ELSE /\ vault' = [vault EXCEPT ![call.path] =
                              Some(WrittenFile(localContent[1], call.mtime))]
               /\ Return(None)
  /\ UNCHANGED <<bucket, folders, call, sent, lst, inflight, failed, prev,
                 calls>>

(* ------------------------------------------------------------------ *)
(* The caller                                                          *)
(* ------------------------------------------------------------------ *)

IsFileUpload(c, o) ==
  c.op = "upload" /\ o.kind = "ok" /\ ~EndsWith(c.path, "/")

(* the caller has the outcome and is free to make the next call *)
Finish ==
  /\ pc = "done"
  /\ pc' = "idle"
  /\ prev' = IF IsFileUpload(call, outcome) THEN Some(call) ELSE None
  /\ call' = NoCall
  /\ outcome' = Pending
  /\ sent' = <<>>
  /\ lst' = NoListing
  /\ UNCHANGED <<bucket, vault, folders, inflight, failed, calls>>

\* the folders of the files the vault holds
FoldersOf(v) == UNION {mkdirpInVault(p) : p \in {q \in FilePaths : v[q] # None}}

Init ==
  /\ bucket \in [BucketKeys -> {None, Some(<<>>)}]
  /\ bucket[Root] = None
  /\ vault \in [FilePaths ->
                 {None} \cup {Some(WrittenFile(c, 0)) : c \in Contents}]
  /\ folders = FoldersOf(vault)
  /\ call = NoCall
  /\ pc = "idle"
  /\ outcome = Pending
  /\ sent = <<>>
  /\ lst = NoListing
  /\ inflight = [k \in BucketKeys |-> 0]
  /\ failed = {}
  /\ prev = None
  /\ calls = 0

Next ==
  \/ \E prefix \in Prefixes : CallList(prefix)
  \/ ListPage
  \/ \E path \in Paths, password \in Passwords, key \in EncKeys :
       CallDelete(path, password, key)
  \/ DeleteMarker
  \/ \E k \in BucketKeys : EntryDeleteSucceeds(k)
  \/ \E k \in BucketKeys : EntryDeleteFails(k)
  \/ CallCheckConnectivity
  \/ HeadBucket
  \/ \E path \in Paths, rec \in BOOLEAN, password \in Passwords,
        key \in EncKeys : CallUpload(path, rec, password, key)
  \/ UploadPut
  \/ UploadRead
  \/ UploadDone
  \/ UploadHead
  \/ \E path \in Paths, mtime \in Mtimes, password \in Passwords,
        key \in EncKeys : CallDownload(path, mtime, password, key)
  \/ DownloadMkdir
  \/ DownloadGet
  \/ DownloadWrite
  \/ Finish

Spec == Init /\ [][Next]_vars

(* ------------------------------------------------------------------ *)
(* Properties                                                          *)
(* ------------------------------------------------------------------ *)

Done(op) == pc = "done" /\ call.op = op

\* the keys of the objects the bucket holds under a prefix
KeysUnder(prefix) == Range(MatchingKeys(prefix))

\* the keys of the items a listing returned
ReturnedKeys(x) == [i \in 1..Len(x.Contents) |-> x.Contents[i].key]

NoDuplicates(s) == \A i, j \in 1..Len(s) : s[i] = s[j] => i = j

\* a delete of a directory marker other than "/"
MarkerDelete ==
  call.op = "delete" /\ EndsWith(call.path, "/") /\ call.path # Root

\* C1: whatever pages a protocol-following backend cuts the listing into,
\* listFromRemote(prefix) returns exactly the objects under the prefix,
\* each once (no request failing in transport and the bucket not being
\* written to meanwhile).
C1_ListReturnsExactlyThePrefix ==
  (/\ Done("list")
   /\ lst.stable
   /\ lst.pages # <<>>
   /\ ~(outcome.kind = "error" /\ outcome.msg = TransportError)
   /\ \A i \in 1..Len(lst.pages) : Compliant(lst.pages[i]))
  => /\ outcome.kind = "ok"
     /\ NoDuplicates(ReturnedKeys(outcome.value))
     /\ Range(ReturnedKeys(outcome.value)) = KeysUnder(lst.confCmd.Prefix)

\* C2: a listing that ends on a truncated page without a continuation token
\* ends with an error, and the "no continuationToken" error is raised in
\* that case only: a truncated page that carries a token is not where the
\* listing ends.
C2_TruncatedWithoutTokenFailsOnlyThen ==
  (Done("list") /\ lst.pages # <<>>)
  => LET p == lst.pages[Len(lst.pages)]
     IN /\ (p.Contents # None /\ p.IsTruncated /\ ~HasToken(p))
             => outcome.kind = "error"
        /\ (p.status = 200 /\ p.Contents # None /\ p.IsTruncated /\ HasToken(p))
             => FALSE

\* C3: a listing in which some page came with a status other than 200 ends
\* with an error: nothing, so no partial result, is returned.
C3_Non200FailsTheListing ==
  (/\ pc = "done"
   /\ lst.active
   /\ \E i \in 1..Len(lst.pages) : lst.pages[i].status # 200)
  => outcome.kind = "error"

C3_Witness ==
  /\ Done("list")
  /\ lst.pages # <<>>
  /\ lst.pages[Len(lst.pages)].status # 200
  /\ lst.pages[Len(lst.pages)].Contents # None
  /\ outcome.kind = "error"
  /\ outcome.msg = ListingFailed

\* C4: deleteFromRemote("/") returns at once for every password and
\* remoteEncryptedKey: it issues no request, no per-entry delete, and the
\* bucket changes during it only by a delete an earlier call left in flight.
C4_RootDeleteIsNoOp ==
  [][(call'.op = "delete" /\ call'.path = Root)
       => /\ sent' = <<>>
          /\ pc' = "done"
          /\ outcome'.kind = "ok"
          /\ \A k \in BucketKeys : inflight'[k] <= inflight[k]
          /\ bucket' # bucket => \E k \in BucketKeys : inflight'[k] < inflight[k]
    ]_vars

C4_Witness ==
  /\ Done("delete")
  /\ call.path = Root
  /\ call.password # EmptyStr
  /\ call.remoteEncryptedKey # EmptyStr
  /\ \E k \in BucketKeys : bucket[k] # None

\* C5: deleteFromRemote of a directory marker with a password never returns
\* normally: it ends with an error.
C5_EncryptedMarkerDeleteIsRefused ==
  (Done("delete") /\ MarkerDelete /\ call.password # EmptyStr)
  => outcome.kind = "error"

\* C6: a deleteFromRemote of a directory marker without password that
\* returns has sent, in this order, the delete of the marker, the listing of
\* the prefix, and one delete for every listed entry; all of them are out
\* before any is answered, so a rejected one holds back none.
C6_MarkerThenListThenEveryEntry ==
  (/\ Done("delete") /\ MarkerDelete /\ call.password = EmptyStr
   /\ outcome.kind = "ok")
  => LET n == Len(lst.contents)
         m == Len(sent)
     IN /\ m = n + 1 + Len(lst.pages)
        /\ sent[1] = Req("DeleteObject", call.path)
        /\ \A i \in 2..(m - n) :
             /\ sent[i].cmd = "ListObjectsV2"
             /\ sent[i].Prefix = Some(call.path)
        /\ \A i \in 1..n :
             sent[m - n + i] = Req("DeleteObject", lst.contents[i].Key)

C6_Witness ==
  /\ Done("delete") /\ MarkerDelete /\ call.password = EmptyStr
  /\ outcome.kind = "ok"
  /\ Len(lst.contents) = 2
  /\ Len(sent) = 4
  /\ failed = {lst.contents[1].Key}
  /\ bucket[lst.contents[2].Key] = None
  /\ inflight[lst.contents[2].Key] = 0

\* C7: when deleteFromRemote of a directory marker without password has
\* returned without error, every per-entry delete it issued has been
\* answered, none was rejected, and no listed object remains.
C7_ReturnMeansAllEntriesDeleted ==
  (/\ Done("delete") /\ MarkerDelete /\ call.password = EmptyStr
   /\ outcome.kind = "ok")
  => \A i \in 1..Len(lst.contents) :
       LET k == lst.contents[i].Key
       IN inflight[k] = 0 /\ k \notin failed /\ bucket[k] = None

\* the HeadBucket answered with status 200
Status200(r) ==
  /\ ~r.throws
  /\ r.results # None
  /\ r.results[1].metadata # None
  /\ r.results[1].metadata[1].httpStatusCode = Some(200)

\* C8: checkConnectivity never throws; it returns true exactly when the
\* HeadBucket was answered with status 200, and false when the request
\* threw, when the result, its metadata or its status is missing, and for
\* every other status.
C8_ConnectivityIsABoolean ==
  Done("checkConnectivity")
  => /\ outcome.kind = "ok"
     /\ outcome.value = Status200(call.results[1])

C8_Witness ==
  /\ Done("checkConnectivity")
  /\ call.results[1].throws
  /\ outcome.kind = "ok"
  /\ outcome.value = FALSE

\* C9: every request uploadToRemote, downloadFromRemote and deleteFromRemote
\* send while the password is non-empty carries the remoteEncryptedKey as
\* its Key, not the path; this includes the HeadObject after an upload.
C9_EncryptedKeyOnTheWire ==
  (call.op \in {"upload", "download", "delete"} /\ call.password # EmptyStr)
  => \A i \in 1..Len(sent) :
       /\ sent[i].cmd \in {"PutObject", "Upload", "HeadObject", "GetObject",
                           "DeleteObject"}
       /\ sent[i].Key = call.remoteEncryptedKey
       /\ sent[i].Key # call.path

C9_Witness ==
  /\ Done("upload")
  /\ call.password # EmptyStr
  /\ call.remoteEncryptedKey = KeyK
  /\ call.path = FileA
  /\ outcome.kind = "ok"
  /\ Len(sent) = 2
  /\ sent[2] = Req("HeadObject", KeyK)

\* the download in progress follows the upload of the same path, with the
\* same password and the same remoteEncryptedKey
RoundTrip ==
  /\ Done("download")
  /\ outcome.kind = "ok"
  /\ prev # None
  /\ prev[1].path = call.path
  /\ prev[1].password = call.password
  /\ prev[1].remoteEncryptedKey = call.remoteEncryptedKey

\* C10: a download that follows the upload of the same path leaves in the
\* vault the bytes the upload read, with the mtime asked for; with a
\* password the object fetched is the ciphertext, under the
\* remoteEncryptedKey, and differs from the plaintext.
C10_UploadThenDownloadRoundTrips ==
  RoundTrip
  => /\ vault[call.path] = Some([data |-> prev[1].data, mtime |-> call.mtime])
     /\ call.password # EmptyStr
          => /\ sent[1] = Req("GetObject", call.remoteEncryptedKey)
             /\ call.body = encryptArrayBuffer(prev[1].data, call.password)
             /\ call.body # prev[1].data

C10_Witness ==
  /\ RoundTrip
  /\ call.password # EmptyStr
  /\ prev[1].data # <<>>
  /\ vault[call.path] = Some([data |-> prev[1].data, mtime |-> 2])

====
